---------------------------- MODULE Spec2Model ----------------------------
(***************************************************************************)
(* State-machine model of make_epochs.py: main() reads config.json, copies *)
(* the events file and the auxiliary files to out_dir_make_epochs, turns   *)
(* the string-encoded parameters into Python values, strips the platform   *)
(* keys and calls make_epochs(), which selects the picks, loads the events *)
(* matrix, calls mne.Epochs and saves the result; main() then writes       *)
(* product.json.                                                           *)
(*                                                                         *)
(* Python values are tagged records [t |-> type name, v |-> payload]:      *)
(*   NoneType  v = 0                                                       *)
(*   int       v = the integer                                             *)
(*   float     v = the number in tenths (-0.2 is -2, 1.0 is 10)            *)
(*   str       v = the sequence of its characters (1-character strings)    *)
(*   list      v = the sequence of its elements (values)                   *)
(*   tuple     v = the sequence of its elements (values)                   *)
(*   slice     v = <<start, stop, step>> (values)                          *)
(***************************************************************************)
EXTENDS Integers, Sequences, FiniteSets, TLC

VARIABLES
    pc,                 \* position in main() / make_epochs()
    err,                \* the exception that ended the run, "none" before
    disk,               \* the files the run finds: config.json, paths, events.tsv
    config,             \* main(): the config dict
    raw,                \* main(): the mne.io.Raw object
    events_file,        \* main(): the events path
    dict_json_product,  \* main(): the messages for product.json
    kwargs,             \* the keyword arguments bound by make_epochs(raw, events_file, **kwargs)
    param_picks,        \* make_epochs(): the effective picks
    array_events,       \* make_epochs(): the float array np.loadtxt returned
    events,             \* make_epochs(): array_events.astype(int)
    epochs_call,        \* the arguments mne.Epochs was called with
    written,            \* the files written below the working directory, in order
    product_json        \* the document written to product.json

vars == <<pc, err, disk, config, raw, events_file, dict_json_product, kwargs,
          param_picks, array_events, events, epochs_call, written, product_json>>

----------------------------------------------------------------------------
(* Bounds of the inputs.                                                   *)

\* The events file holds at most MaxRows rows.
MaxRows == 2
\* The first column of an events row is at most MaxSample half-samples.
MaxSample == 2
\* raw.first_samp is at most MaxFirstSamp.
MaxFirstSamp == 1

----------------------------------------------------------------------------
(* Python values.                                                          *)

None == [t |-> "NoneType", v |-> 0]
Int_(n) == [t |-> "int", v |-> n]
Float_(n) == [t |-> "float", v |-> n]
Str(s) == [t |-> "str", v |-> s]
List(s) == [t |-> "list", v |-> s]
Tuple(s) == [t |-> "tuple", v |-> s]
Slice(a, b, c) == [t |-> "slice", v |-> <<a, b, c>>]

\* x is None / x is not None
IsNone(x) == x.t = "NoneType"
\* isinstance(x, str), isinstance(x, list)
IsStr(x) == x.t = "str"
IsList(x) == x.t = "list"
\* x == y on values (the tag decides before the payloads are compared)
ValEq(x, y) == x.t = y.t /\ x.v = y.v

\* The unset value of a local variable that has not been assigned yet.
Unset == [t |-> "unset", v |-> 0]

----------------------------------------------------------------------------
(* Python string methods, on sequences of characters.                      *)

Digits == {"0", "1", "2", "3", "4", "5", "6", "7", "8", "9"}

DigitVal(c) ==
    CASE c = "0" -> 0 [] c = "1" -> 1 [] c = "2" -> 2 [] c = "3" -> 3
      [] c = "4" -> 4 [] c = "5" -> 5 [] c = "6" -> 6 [] c = "7" -> 7
      [] c = "8" -> 8 [] c = "9" -> 9

\* s.find(c) for a one-character c: the 0-based index of its first occurrence, -1 if none
find(s, c) ==
    IF \E i \in 1..Len(s) : s[i] = c
    THEN (CHOOSE i \in 1..Len(s) : s[i] = c /\ \A j \in 1..(i - 1) : s[j] # c) - 1
    ELSE -1

\* s.replace(c, '') for a one-character c
replace(s, c) == SelectSeq(s, LAMBDA x : x # c)

\* The 1-based positions where the separator ", " starts in s.
SepAt(s) == {i \in 1..(Len(s) - 1) : s[i] = "," /\ s[i + 1] = " "}

\* s.split(', ')
RECURSIVE split(_)
split(s) ==
    IF SepAt(s) = {}
    THEN <<s>>
    ELSE LET i == CHOOSE k \in SepAt(s) : \A j \in SepAt(s) : k <= j
         IN  <<SubSeq(s, 1, i - 1)>> \o split(SubSeq(s, i + 2, Len(s)))

\* s.strip() of blanks
RECURSIVE strip(_)
strip(s) ==
    IF s # <<>> /\ Head(s) = " " THEN strip(Tail(s))
    ELSE IF s # <<>> /\ s[Len(s)] = " " THEN strip(SubSeq(s, 1, Len(s) - 1))
    ELSE s

\* The value of a sequence of decimal digits.
RECURSIVE DigitsVal(_)
DigitsVal(s) ==
    IF s = <<>> THEN 0 ELSE 10 * DigitsVal(SubSeq(s, 1, Len(s) - 1)) + DigitVal(s[Len(s)])

AllDigits(s) == s # <<>> /\ \A i \in 1..Len(s) : s[i] \in Digits

HasSign(s) == s # <<>> /\ Head(s) \in {"-", "+"}
Unsigned(s) == IF HasSign(s) THEN Tail(s) ELSE s
SignOf(s) == IF s # <<>> /\ Head(s) = "-" THEN -1 ELSE 1

\* int(s) succeeds: blanks around an optionally signed run of digits
IsIntLiteral(s) == AllDigits(Unsigned(strip(s)))
\* int(s)
int(s) == SignOf(strip(s)) * DigitsVal(Unsigned(strip(s)))

\* float(s) succeeds, for the decimal literals with at most one fractional digit
IsFloatLiteral(s) ==
    LET u == Unsigned(strip(s))
        d == find(u, ".")
    IN  IF d = -1 THEN AllDigits(u)
        ELSE /\ AllDigits(SubSeq(u, 1, d))
             /\ Len(u) - (d + 1) <= 1
             /\ \A i \in (d + 2)..Len(u) : u[i] \in Digits
\* float(s), in tenths
float(s) ==
    LET u == Unsigned(strip(s))
        d == find(u, ".")
    IN  IF d = -1 THEN SignOf(strip(s)) * 10 * DigitsVal(u)
        ELSE SignOf(strip(s)) *
             (10 * DigitsVal(SubSeq(u, 1, d)) + DigitsVal(SubSeq(u, d + 2, Len(u))))


----------------------------------------------------------------------------
(* Dictionaries are functions from keys to values.                         *)

\* The dict d without key k.
DictDel(d, k) == [x \in (DOMAIN d) \ {k} |-> d[x]]

\* The outcome of a step that may raise: the exception's type ("none" if the
\* step returned) and the dict as the step left it.
Ok(d) == [exc |-> "none", config |-> d]
Raise(e, d) == [exc |-> e, config |-> d]

----------------------------------------------------------------------------
(* main(), lines 159-161: convert all "" into None.                        *)

\* A variant that tests the truth value of v (`if not v`) instead of v == "".
EmptyToNone_falsy(cfg) ==
    [k \in DOMAIN cfg |->
        IF \/ IsStr(cfg[k]) /\ cfg[k].v = <<>>
           \/ cfg[k].t \in {"int", "float", "bool"} /\ cfg[k].v = 0
           \/ cfg[k].t \in {"list", "tuple"} /\ cfg[k].v = <<>>
        THEN None ELSE cfg[k]]

EmptyToNone(cfg) ==
    [k \in DOMAIN cfg |-> IF IsStr(cfg[k]) /\ cfg[k].v = <<>> THEN None ELSE cfg[k]]

----------------------------------------------------------------------------
(* main(), lines 201-218: param_baseline.                                  *)

\* tuple(x) is defined on the iterables: a str gives the tuple of its characters.
Iterable(x) == x.t \in {"str", "list", "tuple"}
tuple(x) ==
    IF IsStr(x) THEN Tuple([i \in 1..Len(x.v) |-> Str(<<x.v[i]>>)]) ELSE Tuple(x.v)

NoneToken == <<"N", "o", "n", "e">>

\* Lines 214-216 raise ValueError when float() rejects a token.
BaselineTokensOk(s) ==
    \A i \in 1..Len(split(s)) : split(s)[i] = NoneToken \/ IsFloatLiteral(split(s)[i])
\* Lines 214-218: the tuple built from the string s.
BaselineFromStr(s) ==
    Tuple([i \in 1..Len(split(s)) |->
              IF split(s)[i] = NoneToken THEN None ELSE Float_(float(split(s)[i]))])

\* Lines 203-204.
BaselineNotNone(cfg) ==
    LET b == cfg["param_baseline"]
    IN  IF IsNone(b) THEN Ok(cfg)
        ELSE IF Iterable(b) THEN Ok([cfg EXCEPT !["param_baseline"] = tuple(b)])
        ELSE Raise("TypeError", cfg)
\* Lines 209-210.
BaselineList(cfg) ==
    LET b == cfg["param_baseline"]
    IN  IF IsList(b) THEN [cfg EXCEPT !["param_baseline"] = tuple(b)] ELSE cfg
\* Lines 213-218.
BaselineStr(cfg) ==
    LET b == cfg["param_baseline"]
    IN  IF IsStr(b)
        THEN IF BaselineTokensOk(b.v)
             THEN Ok([cfg EXCEPT !["param_baseline"] = BaselineFromStr(b.v)])
             ELSE Raise("ValueError", cfg)
        ELSE Ok(cfg)

ConvertBaseline(cfg) ==
    LET r1 == BaselineNotNone(cfg)
    IN  IF r1.exc # "none" THEN r1 ELSE BaselineStr(BaselineList(r1.config))

----------------------------------------------------------------------------
(* main(), lines 226-243: param_picks_by_channel_indices.                  *)

AllInts(toks) == \A i \in 1..Len(toks) : IsIntLiteral(toks[i])
IntList(toks) == [i \in 1..Len(toks) |-> Int_(int(toks[i]))]

\* Line 229: a string with a comma and no bracket.
IsSliceString(picks) ==
    IsStr(picks) /\ find(picks.v, ",") # -1 /\ find(picks.v, "[") = -1 /\ ~IsNone(picks)
\* Line 240: a string with a comma and a bracket.
IsListString(picks) ==
    IsStr(picks) /\ find(picks.v, ",") # -1 /\ find(picks.v, "[") # -1 /\ ~IsNone(picks)

\* Lines 230-237.
SliceFromStr(cfg) ==
    LET toks == split(cfg["param_picks_by_channel_indices"].v)
        picks == IntList(toks)
    IN  IF ~AllInts(toks) THEN Raise("ValueError", cfg)
        ELSE IF Len(picks) = 2
        THEN Ok([cfg EXCEPT !["param_picks_by_channel_indices"] =
                                Slice(picks[1], picks[2], None)])
        ELSE IF Len(picks) = 3
        THEN Ok([cfg EXCEPT !["param_picks_by_channel_indices"] =
                                Slice(picks[1], picks[2], picks[3])])
        ELSE Raise("ValueError", cfg)
\* Lines 241-243.
IndexListFromStr(cfg) ==
    LET toks == split(replace(replace(cfg["param_picks_by_channel_indices"].v, "["), "]"))
    IN  IF AllInts(toks)
        THEN Ok([cfg EXCEPT !["param_picks_by_channel_indices"] = List(IntList(toks))])
        ELSE Raise("ValueError", cfg)

\* The local picks of line 228 is rebound to a list at line 230, so the test
\* of line 240 reads the string only when the test of line 229 failed.
ConvertPicksIndices(cfg) ==
    LET picks == cfg["param_picks_by_channel_indices"]
    IN  IF IsSliceString(picks) THEN SliceFromStr(cfg)
        ELSE IF IsListString(picks) THEN IndexListFromStr(cfg)
        ELSE Ok(cfg)

----------------------------------------------------------------------------
(* main(), lines 245-251: param_picks_by_channel_types_or_names.           *)

ConvertPicksNames(cfg) ==
    LET picks == cfg["param_picks_by_channel_types_or_names"]
    IN  IF IsStr(picks) /\ find(picks.v, "[") # -1 /\ ~IsNone(picks)
        THEN LET toks == split(replace(replace(picks.v, "["), "]"))
             IN  [cfg EXCEPT !["param_picks_by_channel_types_or_names"] =
                                 List([i \in 1..Len(toks) |-> Str(toks[i])])]
        ELSE cfg

----------------------------------------------------------------------------
(* main(), lines 253-261: param_event_id.                                  *)

\* The types with a find method among the values of the model.
HasFind(x) == x.t = "str"

ConvertEventId(cfg) ==
    LET e == cfg["param_event_id"]
    IN  IF IsNone(e) THEN Ok(cfg)
        ELSE IF ~HasFind(e) THEN Raise("AttributeError", cfg)
        ELSE IF find(e.v, "[") # -1
        THEN LET toks == split(replace(replace(e.v, "["), "]"))
             IN  IF AllInts(toks)
                 THEN Ok([cfg EXCEPT !["param_event_id"] = List(IntList(toks))])
                 ELSE Raise("ValueError", cfg)
        ELSE IF IsIntLiteral(e.v)
        THEN Ok([cfg EXCEPT !["param_event_id"] = Int_(int(e.v))])
        ELSE Raise("ValueError", cfg)

----------------------------------------------------------------------------
(* main(), lines 266-271: the reserved platform keys.                      *)

ReservedKeys == <<"_app", "_tid", "_inputs", "_outputs">>

\* A non-empty string is true; `a and b and c and (d in keys)` is then the
\* value of its last operand.
Truthy(s) == s # ""
StripTest(cfg) ==
    Truthy("_app") /\ Truthy("_tid") /\ Truthy("_inputs") /\ "_outputs" \in DOMAIN cfg

\* del d[k1], d[k2], ...: the targets are deleted from left to right and the
\* first missing one raises KeyError.
RECURSIVE DelKeys(_, _)
DelKeys(cfg, ks) ==
    IF ks = <<>> THEN Ok(cfg)
    ELSE IF Head(ks) \notin DOMAIN cfg THEN Raise("KeyError", cfg)
    ELSE DelKeys(DictDel(cfg, Head(ks)), Tail(ks))

StripReservedKeys(cfg) == IF StripTest(cfg) THEN DelKeys(cfg, ReservedKeys) ELSE Ok(cfg)

----------------------------------------------------------------------------
(* make_epochs(), lines 10-14 and 81-98.                                   *)

\* The keyword parameters of make_epochs.
ParamNames ==
    {"param_event_id", "param_tmin", "param_tmax", "param_baseline",
     "param_picks_by_channel_types_or_names", "param_picks_by_channel_indices",
     "param_preload", "param_reject", "param_flat", "param_proj", "param_decim",
     "param_reject_tmin", "param_reject_tmax", "param_detrend", "param_on_missing",
     "param_reject_by_annotation", "param_metadata", "param_event_repeated"}

\* make_epochs(raw, events_file, **kw) binds its parameters when kw has
\* exactly their names; a missing or an unexpected keyword raises TypeError.
BindsParameters(kw) == DOMAIN kw = ParamNames

\* A variant of the test of line 82 with `or` for `and`.
BothPicks_or(names, indices) == ~IsNone(names) \/ ~IsNone(indices)

\* Line 82: both selections are given, which raises the ValueError of line 87.
BothPicks(names, indices) == ~IsNone(names) /\ ~IsNone(indices)
\* Lines 89-94.
SelectPicks(names, indices) ==
    IF IsNone(names) /\ ~IsNone(indices) THEN indices
    ELSE IF ~IsNone(names) /\ IsNone(indices) THEN names
    ELSE None

\* A variant of astype(int) that rounds down instead of toward zero.
astype_int_floor(h) == h \div 2

\* The cells of the events file are numbers in halves (3 is 1.5).
\* x.astype(int) truncates toward zero.
astype_int(h) == IF h >= 0 THEN h \div 2 ELSE -((-h) \div 2)

\* np.loadtxt with the default ndmin=0: a file of two rows or more gives a
\* 2-D array; a file of one row is squeezed to the 1-D array of its cells;
\* an empty file gives an empty 1-D array.
loadtxt(rows) ==
    IF Len(rows) >= 2 THEN [dim |-> 2, rows |-> rows]
    ELSE IF Len(rows) = 1 THEN [dim |-> 1, rows |-> rows[1]]
    ELSE [dim |-> 1, rows |-> <<>>]

\* array.astype(int), elementwise.
ArrayAsInt(a) ==
    IF a.dim = 2
    THEN [dim |-> 2,
          rows |-> [i \in 1..Len(a.rows) |->
                       [j \in 1..Len(a.rows[i]) |-> astype_int(a.rows[i][j])]]]
    ELSE [dim |-> 1, rows |-> [j \in 1..Len(a.rows) |-> astype_int(a.rows[j])]]


----------------------------------------------------------------------------
(* The inputs of a run: config.json and the files on disk.                 *)

FifPath == Str(<<"m", "e", "g", ".", "f", "i", "f">>)
EventsPath == Str(<<"e", "v", "e", "n", "t", "s", ".", "t", "s", "v">>)
CrosstalkPath == Str(<<"c", "t", ".", "f", "i", "f">>)
CalibrationPath == Str(<<"c", "a", "l", ".", "d", "a", "t">>)
DestinationPath == Str(<<"d", "e", "s", "t", ".", "f", "i", "f">>)
HeadshapePath == Str(<<"h", "s", ".", "p", "o", "s">>)
InputPaths ==
    {FifPath.v, EventsPath.v, CrosstalkPath.v, CalibrationPath.v, DestinationPath.v,
     HeadshapePath.v}

\* Raw values of param_baseline: None, "", "None, 0", "-0.2, 0", [None, 0].
BaselineRaw ==
    {None, Str(<<>>), Str(<<"N", "o", "n", "e", ",", " ", "0">>), Str(<<"-", "0", ".", "2", ",", " ", "0">>), List(<<None, Int_(0)>>)}

\* Raw values of param_picks_by_channel_indices: None, "", "0, 10", "0, 10, 2",
\* "0, 1, 2, 3", "0,10", "[1, 2, 5]", "[5]", [1, 2].
IndicesRaw ==
    {None, Str(<<>>), Str(<<"0", ",", " ", "1", "0">>), Str(<<"0", ",", " ", "1", "0", ",", " ", "2">>), Str(<<"0", ",", " ", "1", ",", " ", "2", ",", " ", "3">>), Str(<<"0", ",", "1", "0">>),
     Str(<<"[", "1", ",", " ", "2", ",", " ", "5", "]">>), Str(<<"[", "5", "]">>), List(<<Int_(1), Int_(2)>>)}

\* Raw values of param_picks_by_channel_types_or_names: None, "", "meg", "[meg, eeg]".
NamesRaw == {None, Str(<<>>), Str(<<"m", "e", "g">>), Str(<<"[", "m", "e", "g", ",", " ", "e", "e", "g", "]">>)}

\* Raw values of param_event_id: None, "", "3", "[1, 2]", 3, [1, 2].
EventIdRaw ==
    {None, Str(<<>>), Str(<<"3">>), Str(<<"[", "1", ",", " ", "2", "]">>), Int_(3), List(<<Int_(1), Int_(2)>>)}

\* Raw values of param_reject_tmin: "" and 0.0.
RejectTminRaw == {Str(<<>>), Float_(0)}

True == [t |-> "bool", v |-> 1]

\* config.json with the given values, the other parameters at the defaults
\* of the docstring, and the reserved keys of the set rk.
ConfigJson(baseline, indices, names, event_id, reject_tmin, rk) ==
    [k \in {"fif", "events", "crosstalk", "calibration", "destination", "headshape"}
           \cup ParamNames \cup rk |->
        CASE k = "fif" -> FifPath
          [] k = "events" -> EventsPath
          [] k = "crosstalk" -> CrosstalkPath
          [] k = "calibration" -> CalibrationPath
          [] k = "destination" -> DestinationPath
          [] k = "headshape" -> HeadshapePath
          [] k = "param_event_id" -> event_id
          [] k = "param_tmin" -> Float_(-2)
          [] k = "param_tmax" -> Float_(5)
          [] k = "param_baseline" -> baseline
          [] k = "param_picks_by_channel_types_or_names" -> names
          [] k = "param_picks_by_channel_indices" -> indices
          [] k = "param_preload" -> True
          [] k = "param_reject" -> None
          [] k = "param_flat" -> None
          [] k = "param_proj" -> True
          [] k = "param_decim" -> Int_(1)
          [] k = "param_reject_tmin" -> reject_tmin
          [] k = "param_reject_tmax" -> None
          [] k = "param_detrend" -> None
          [] k = "param_on_missing" -> Str(<<"r", "a", "i", "s", "e">>)
          [] k = "param_reject_by_annotation" -> True
          [] k = "param_metadata" -> None
          [] k = "param_event_repeated" -> Str(<<"e", "r", "r", "o", "r">>)
          [] OTHER -> Str(<<"b", "l">>)]

ReservedSet == {ReservedKeys[i] : i \in 1..Len(ReservedKeys)}

\* The docstring's defaults, as a local run gives them.
DefaultConfig == ConfigJson(List(<<None, Int_(0)>>), None, None, None, Float_(0), {})

\* Rows of the events file, in halves: the sample, the previous value, the code.
EventRows == {<<s, p, c>> : s \in 0..MaxSample, p \in {0, -3}, c \in {2, 4}}

RECURSIVE SeqsUpTo(_, _)
SeqsUpTo(S, n) ==
    IF n = 0 THEN {<<>>}
    ELSE SeqsUpTo(S, n - 1) \cup
         {Append(q, x) : q \in {r \in SeqsUpTo(S, n - 1) : Len(r) = n - 1}, x \in S}

\* An events file of two events, as app-get-events writes it.
SomeEvents == <<<<2, 0, 2>>, <<4, 0, 4>>>>

Disk(cfg, files, first_samp, rows) ==
    [config_json |-> cfg, files |-> files, first_samp |-> first_samp, events_tsv |-> rows]

\* Every combination of the parameter values, with the platform's keys; the
\* events file is there or not.
ParamInputs ==
    {Disk(ConfigJson(b, i, n, e, rt, ReservedSet), f, 0, SomeEvents) :
        b \in BaselineRaw, i \in IndicesRaw, n \in NamesRaw, e \in EventIdRaw,
        rt \in RejectTminRaw, f \in {InputPaths, InputPaths \ {EventsPath.v}}}

\* Every subset of the input files, for the default parameters.
FileInputs == {Disk(DefaultConfig, f, 0, SomeEvents) : f \in SUBSET InputPaths}

\* Every subset of the reserved keys.
KeyInputs ==
    {Disk(ConfigJson(None, i, None, None, Str(<<>>), rk), InputPaths, 0, SomeEvents) :
        i \in {None, Str(<<"0", ",", " ", "1", "0">>)}, rk \in SUBSET ReservedSet}

\* Every events file and first sample within the bounds.
EventsInputs ==
    {Disk(DefaultConfig, InputPaths, fs, rows) :
        fs \in 0..MaxFirstSamp, rows \in SeqsUpTo(EventRows, MaxRows)}

Inputs == ParamInputs \cup FileInputs \cup KeyInputs \cup EventsInputs

\* os.path.exists(path)
exists(path) == path.v \in disk.files

----------------------------------------------------------------------------
(* The run.                                                                *)

Init ==
    /\ disk \in Inputs
    /\ pc = "load_config"
    /\ err = "none"
    /\ config = <<>>
    /\ raw = Unset
    /\ events_file = Unset
    /\ dict_json_product = <<>>
    /\ kwargs = <<>>
    /\ param_picks = Unset
    /\ array_events = Unset
    /\ events = Unset
    /\ epochs_call = <<>>
    /\ written = <<>>
    /\ product_json = [brainlife |-> <<>>]

\* The run ends with exception e.
Fail(e) == pc' = "error" /\ err' = e

\* Lines 115-120.
LoadConfig ==
    /\ pc = "load_config"
    /\ dict_json_product' = <<>>
    /\ config' = disk.config_json
    /\ pc' = "read_raw"
    /\ UNCHANGED <<err, disk, raw, events_file, kwargs, param_picks, array_events,
                   events, epochs_call, written, product_json>>

\* Lines 122-124.
ReadRaw ==
    /\ pc = "read_raw"
    /\ config' = DictDel(config, "fif")
    /\ IF exists(config["fif"])
       THEN raw' = [first_samp |-> disk.first_samp] /\ pc' = "events" /\ err' = err
       ELSE raw' = raw /\ Fail("FileNotFoundError")
    /\ UNCHANGED <<disk, events_file, dict_json_product, kwargs, param_picks,
                   array_events, events, epochs_call, written, product_json>>

\* A variant of lines 126-137 that leaves the copy of line 137 out.
CopyEvents_NoCopy ==
    /\ pc = "events"
    /\ config' = DictDel(config, "events")
    /\ IF ~exists(config["events"])
       THEN events_file' = None /\ Fail("ValueError")
       ELSE events_file' = config["events"] /\ pc' = "crosstalk" /\ err' = err
    /\ UNCHANGED <<disk, raw, dict_json_product, kwargs, param_picks, array_events,
                   events, epochs_call, written, product_json>>

\* Lines 126-137.
CopyEvents ==
    /\ pc = "events"
    /\ config' = DictDel(config, "events")
    /\ IF ~exists(config["events"])
       THEN events_file' = None /\ Fail("ValueError") /\ written' = written
       ELSE /\ events_file' = config["events"]
            /\ written' = Append(written, "out_dir_make_epochs/events.tsv")
            /\ pc' = "crosstalk" /\ err' = err
    /\ UNCHANGED <<disk, raw, dict_json_product, kwargs, param_picks, array_events,
                   events, epochs_call, product_json>>

\* A variant of lines 139-157 that copies without the test of existence, so
\* that shutil.copy2 raises on a missing file.
CopyAux_strict(at, key, dest, next) ==
    /\ pc = at
    /\ config' = DictDel(config, key)
    /\ IF exists(config[key])
       THEN written' = Append(written, dest) /\ pc' = next /\ err' = err
       ELSE written' = written /\ Fail("FileNotFoundError")
    /\ UNCHANGED <<disk, raw, events_file, dict_json_product, kwargs, param_picks,
                   array_events, events, epochs_call, product_json>>

\* The pattern of lines 139-157: pop the key, copy the file if it exists.
CopyAux(at, key, dest, next) ==
    /\ pc = at
    /\ config' = DictDel(config, key)
    /\ written' = IF exists(config[key]) THEN Append(written, dest) ELSE written
    /\ pc' = next
    /\ UNCHANGED <<err, disk, raw, events_file, dict_json_product, kwargs, param_picks,
                   array_events, events, epochs_call, product_json>>

\* Lines 139-142.
CopyCrosstalk ==
    CopyAux("crosstalk", "crosstalk", "out_dir_make_epochs/crosstalk_meg.fif", "calibration")
\* Lines 144-147.
CopyCalibration ==
    CopyAux("calibration", "calibration", "out_dir_make_epochs/calibration_meg.dat",
            "destination")
\* Lines 149-152.
CopyDestination ==
    CopyAux("destination", "destination", "out_dir_make_epochs/destination.fif", "headshape")
\* Lines 154-157.
CopyHeadshape ==
    CopyAux("headshape", "headshape", "out_dir_make_epochs/headshape.pos", "empty_to_none")

\* A step of main() that rewrites config or raises.
ConfigStep(at, r, next) ==
    /\ pc = at
    /\ config' = r.config
    /\ IF r.exc = "none" THEN pc' = next /\ err' = err ELSE Fail(r.exc)
    /\ UNCHANGED <<disk, raw, events_file, dict_json_product, kwargs, param_picks,
                   array_events, events, epochs_call, written, product_json>>

\* Lines 159-161.
CoerceEmpty == ConfigStep("empty_to_none", Ok(EmptyToNone(config)), "baseline")
\* Lines 201-218.
Baseline == ConfigStep("baseline", ConvertBaseline(config), "picks_indices")
\* Lines 226-243.
PicksIndices == ConfigStep("picks_indices", ConvertPicksIndices(config), "picks_names")
\* Lines 245-251.
PicksNames == ConfigStep("picks_names", Ok(ConvertPicksNames(config)), "event_id")
\* Lines 253-261.
EventId == ConfigStep("event_id", ConvertEventId(config), "strip_keys")

\* Lines 266-271.
StripKeys ==
    /\ pc = "strip_keys"
    /\ LET r == StripReservedKeys(config)
       IN  /\ config' = r.config
           /\ IF r.exc = "none"
              THEN kwargs' = r.config /\ pc' = "make_epochs" /\ err' = err
              ELSE kwargs' = kwargs /\ Fail(r.exc)
    /\ UNCHANGED <<disk, raw, events_file, dict_json_product, param_picks, array_events,
                   events, epochs_call, written, product_json>>

\* Line 274 and lines 81-94: the call binds the parameters, then the picks
\* are selected.
CallMakeEpochs ==
    /\ pc = "make_epochs"
    /\ IF ~BindsParameters(kwargs)
       THEN Fail("TypeError") /\ param_picks' = param_picks
       ELSE IF BothPicks(kwargs["param_picks_by_channel_types_or_names"],
                         kwargs["param_picks_by_channel_indices"])
       THEN Fail("ValueError") /\ param_picks' = param_picks
       ELSE /\ param_picks' = SelectPicks(kwargs["param_picks_by_channel_types_or_names"],
                                          kwargs["param_picks_by_channel_indices"])
            /\ pc' = "loadtxt" /\ err' = err
    /\ UNCHANGED <<disk, config, raw, events_file, dict_json_product, kwargs,
                   array_events, events, epochs_call, written, product_json>>

\* Lines 96-98.
LoadEvents ==
    /\ pc = "loadtxt"
    /\ array_events' = loadtxt(disk.events_tsv)
    /\ events' = ArrayAsInt(array_events')
    /\ pc' = "epochs"
    /\ UNCHANGED <<err, disk, config, raw, events_file, dict_json_product, kwargs,
                   param_picks, epochs_call, written, product_json>>

\* The keyword arguments of mne.Epochs taken from the parameters of the same
\* name (param_x is passed as x).
PassedOn ==
    ParamNames \ {"param_picks_by_channel_types_or_names", "param_picks_by_channel_indices"}

\* Lines 100-105: the call of mne.Epochs, which returns or raises.
Epochs ==
    /\ pc = "epochs"
    /\ epochs_call' = Append(epochs_call,
                             [raw |-> raw, events |-> events, picks |-> param_picks,
                              kw |-> [k \in PassedOn |-> kwargs[k]]])
    /\ \E returns \in BOOLEAN :
          IF returns THEN pc' = "save" /\ err' = err ELSE Fail("mne.Epochs")
    /\ UNCHANGED <<disk, config, raw, events_file, dict_json_product, kwargs,
                   param_picks, array_events, events, written, product_json>>

\* A variant of lines 107-110 that goes on when the save raises.
Save_swallow ==
    /\ pc = "save"
    /\ \E returns \in BOOLEAN :
          written' = IF returns THEN Append(written, "out_dir_make_epochs/meg.fif")
                     ELSE written
    /\ pc' = "success"
    /\ UNCHANGED <<err, disk, config, raw, events_file, dict_json_product, kwargs,
                   param_picks, array_events, events, epochs_call, product_json>>

\* Lines 107-110: the save of the epochs, which returns or raises.
Save ==
    /\ pc = "save"
    /\ \E returns \in BOOLEAN :
          IF returns
          THEN /\ written' = Append(written, "out_dir_make_epochs/meg.fif")
               /\ pc' = "success" /\ err' = err
          ELSE written' = written /\ Fail("mne.save")
    /\ UNCHANGED <<disk, config, raw, events_file, dict_json_product, kwargs,
                   param_picks, array_events, events, epochs_call, product_json>>

\* Lines 276-277.
Success ==
    /\ pc = "success"
    /\ dict_json_product' =
          Append(dict_json_product,
                 [type |-> "success", msg |-> "Data was successfully epoched."])
    /\ pc' = "write_product"
    /\ UNCHANGED <<err, disk, config, raw, events_file, kwargs, param_picks,
                   array_events, events, epochs_call, written, product_json>>

\* Lines 279-281.
WriteProduct ==
    /\ pc = "write_product"
    /\ written' = Append(written, "product.json")
    /\ product_json' = [brainlife |-> dict_json_product]
    /\ pc' = "done"
    /\ UNCHANGED <<err, disk, config, raw, events_file, dict_json_product, kwargs,
                   param_picks, array_events, events, epochs_call>>

Next ==
    \/ LoadConfig
    \/ ReadRaw
    \/ CopyEvents
    \/ CopyCrosstalk
    \/ CopyCalibration
    \/ CopyDestination
    \/ CopyHeadshape
    \/ CoerceEmpty
    \/ Baseline
    \/ PicksIndices
    \/ PicksNames
    \/ EventId
    \/ StripKeys
    \/ CallMakeEpochs
    \/ LoadEvents
    \/ Epochs
    \/ Save
    \/ Success
    \/ WriteProduct

Spec == Init /\ [][Next]_vars

----------------------------------------------------------------------------
(* Properties.                                                             *)

\* config.json as the run read it.
RawConfig == disk.config_json
\* The files written so far.
Written == {written[i] : i \in 1..Len(written)}
\* make_epochs has been called and has bound its parameters.
Called == BindsParameters(kwargs) /\ pc # "make_epochs"
\* The run is past the test of the events file (lines 126-137).
PastEvents == DOMAIN config # {} /\ "events" \notin DOMAIN config
\* The auxiliary files: the key, the path, the copy.
AuxFiles ==
    {<<"crosstalk", CrosstalkPath, "out_dir_make_epochs/crosstalk_meg.fif">>,
     <<"calibration", CalibrationPath, "out_dir_make_epochs/calibration_meg.dat">>,
     <<"destination", DestinationPath, "out_dir_make_epochs/destination.fif">>,
     <<"headshape", HeadshapePath, "out_dir_make_epochs/headshape.pos">>}
\* r is h (in halves) truncated toward zero.
IsTruncation(r, h) ==
    IF h >= 0 THEN 2 * r <= h /\ h < 2 * r + 2 ELSE 2 * r >= h /\ h > 2 * r - 2

\* C1: in make_epochs, two non-None channel selections end the call with the
\* ValueError of line 87 and mne.Epochs is not called; with exactly one
\* non-None selection the picks passed to mne.Epochs are that selection, and
\* with none they are None (and the call is not ended by the validation).
C1_PicksMutualExclusion ==
    Called =>
        LET names == kwargs["param_picks_by_channel_types_or_names"]
            indices == kwargs["param_picks_by_channel_indices"]
            one == IF IsNone(names) THEN indices ELSE names
        IN  IF ~IsNone(names) /\ ~IsNone(indices)
            THEN pc = "error" /\ err = "ValueError" /\ epochs_call = <<>>
            ELSE /\ pc = "error" => err \in {"mne.Epochs", "mne.save"}
                 /\ ValEq(param_picks, one)
                 /\ epochs_call # <<>> => ValEq(epochs_call[1].picks, one)
                 /\ (IsNone(names) /\ IsNone(indices)) => IsNone(param_picks)

\* C1 witness: make_epochs was called with a slice and a list of names and
\* raised.
C1_Witness ==
    /\ Called /\ pc = "error" /\ err = "ValueError"
    /\ kwargs["param_picks_by_channel_types_or_names"].t = "list"
    /\ kwargs["param_picks_by_channel_indices"].t = "slice"

\* The validation error of make_epochs has ended the run.
PicksConflictRaised ==
    /\ Called /\ pc = "error"
    /\ BothPicks(kwargs["param_picks_by_channel_types_or_names"],
                 kwargs["param_picks_by_channel_indices"])

\* C2 (as claimed): when the run ends with the validation error of the two
\* channel selections, no file has been written.
C2_NoOutputBeforeValidationError == PicksConflictRaised => written = <<>>

\* C2 (amended): when the run ends with the validation error of the two
\* channel selections, events.tsv was copied first, every auxiliary file
\* that exists was copied, and neither meg.fif nor product.json was written.
C2_OnlyCopiesBeforeValidationError ==
    PicksConflictRaised =>
        /\ written # <<>> /\ written[1] = "out_dir_make_epochs/events.tsv"
        /\ "out_dir_make_epochs/meg.fif" \notin Written
        /\ "product.json" \notin Written
        /\ \A a \in AuxFiles : a[3] \in Written <=> exists(a[2])

\* C2 witness: the validation error was raised with all five copies made.
C2_Witness == PicksConflictRaised /\ Len(written) = 5

\* C3 (as claimed): after the baseline step, a string "a, b" has become the
\* tuple of its parsed numbers ("None" giving None) and a list the tuple of
\* its elements.
C3_BaselineNormalized ==
    pc = "picks_indices" =>
        LET r == RawConfig["param_baseline"]
            b == config["param_baseline"]
        IN  /\ (IsStr(r) /\ r.v # <<>>) => ValEq(b, BaselineFromStr(r.v))
            /\ IsList(r) => ValEq(b, Tuple(r.v))

\* C4: after the coercion every key whose raw value is "" holds None and
\* every other key holds its raw value; a parameter whose raw value is "" is
\* None in the keyword arguments of make_epochs.
C4_EmptyStringCoercion ==
    /\ pc = "baseline" =>
          \A k \in DOMAIN config :
              IF IsStr(RawConfig[k]) /\ RawConfig[k].v = <<>>
              THEN IsNone(config[k])
              ELSE ValEq(config[k], RawConfig[k])
    /\ BindsParameters(kwargs) =>
          \A k \in ParamNames :
              (IsStr(RawConfig[k]) /\ RawConfig[k].v = <<>>) => IsNone(kwargs[k])

\* C4 witness: make_epochs is called with None for two parameters that were
\* "" in config.json, and with 0.0 kept for none.
C4_Witness ==
    /\ pc = "make_epochs" /\ BindsParameters(kwargs)
    /\ RawConfig["param_baseline"] = Str(<<>>) /\ IsNone(kwargs["param_baseline"])
    /\ RawConfig["param_reject_tmin"] = Str(<<>>) /\ IsNone(kwargs["param_reject_tmin"])

\* C5 (as claimed): after the step of param_picks_by_channel_indices, a string
\* with a comma and no bracket has two or three tokens and has become the
\* slice of them, a string with brackets has become the list of its integers,
\* and None or a typed value is unchanged.
C5_PicksIndicesNormalized ==
    pc = "picks_names" =>
        LET r == RawConfig["param_picks_by_channel_indices"]
            p == config["param_picks_by_channel_indices"]
        IN  /\ (IsStr(r) /\ find(r.v, ",") # -1 /\ find(r.v, "[") = -1) =>
                  LET n == IntList(split(r.v))
                  IN  /\ Len(n) \in {2, 3}
                      /\ ValEq(p, Slice(n[1], n[2], IF Len(n) = 2 THEN None ELSE n[3]))
            /\ (IsStr(r) /\ find(r.v, "[") # -1) =>
                  ValEq(p, List(IntList(split(replace(replace(r.v, "["), "]")))))
            /\ ~IsStr(r) => ValEq(p, r)

\* C6 (as claimed): after the step of param_event_id, a bracketed string has
\* become the list of its integers and a plain string its integer; None, an
\* int or a list of ints is unchanged and raises nothing.
C6_EventIdNormalized ==
    LET r == RawConfig["param_event_id"]
    IN  /\ ~IsStr(r) => err # "AttributeError"
        /\ pc = "strip_keys" =>
              LET e == config["param_event_id"]
              IN  /\ (IsStr(r) /\ find(r.v, "[") # -1) =>
                        ValEq(e, List(IntList(split(replace(replace(r.v, "["), "]")))))
                  /\ (IsStr(r) /\ r.v # <<>> /\ find(r.v, "[") = -1) =>
                        ValEq(e, Int_(int(r.v)))
                  /\ ~IsStr(r) => ValEq(e, r)

\* C7 (as claimed): the events array passed to mne.Epochs has one row per row
\* of the events file, in order: raw.first_samp plus the sample, 0, the code.
C7_EventsMatrixOffset ==
    (epochs_call # <<>> /\ Len(disk.events_tsv) >= 2) =>
        LET c == epochs_call[1]
            tsv == disk.events_tsv
        IN  /\ c.events.dim = 2
            /\ Len(c.events.rows) = Len(tsv)
            /\ \A i \in 1..Len(tsv) :
                  c.events.rows[i] =
                      <<c.raw.first_samp + astype_int(tsv[i][1]), 0, astype_int(tsv[i][3])>>

\* C7 (amended): for a file of two rows or more, the events array passed to
\* mne.Epochs has one row per row of the file, in order, each cell the file's
\* cell truncated to an integer: no offset is added to the first column and
\* the second column is the file's; a file of one row gives the 1-D array of
\* its three cells and an empty file an empty array.
C7_EventsMatrixIsFile ==
    epochs_call # <<>> =>
        LET ev == epochs_call[1].events
            tsv == disk.events_tsv
        IN  /\ Len(tsv) >= 2 =>
                  /\ ev.dim = 2
                  /\ Len(ev.rows) = Len(tsv)
                  /\ \A i \in 1..Len(tsv) :
                        /\ Len(ev.rows[i]) = 3
                        /\ \A j \in 1..3 : IsTruncation(ev.rows[i][j], tsv[i][j])
            /\ Len(tsv) = 1 =>
                  /\ ev.dim = 1
                  /\ Len(ev.rows) = 3
                  /\ \A j \in 1..3 : IsTruncation(ev.rows[j], tsv[1][j])
            /\ Len(tsv) = 0 => ev.dim = 1 /\ ev.rows = <<>>

\* C7 witness: mne.Epochs was called with the events of a two-row file whose
\* second column is not 0, for a recording whose first sample is not 0.
C7_Witness ==
    /\ epochs_call # <<>>
    /\ Len(disk.events_tsv) = 2
    /\ disk.events_tsv[1][2] # 0
    /\ epochs_call[1].raw.first_samp > 0
    /\ epochs_call[1].events.dim = 2

\* C8 (as claimed): the stripping raises nothing, and the keyword arguments
\* passed to make_epochs hold every parameter and no reserved key.
C8_ReservedKeysStripped ==
    /\ err # "KeyError"
    /\ pc = "make_epochs" =>
          /\ DOMAIN kwargs \cap ReservedSet = {}
          /\ ParamNames \subseteq DOMAIN kwargs

\* C9: product.json is written at most once, after mne.Epochs was called and
\* meg.fif saved, with exactly one entry, of type success; a run that ended
\* with an error has recorded no entry and written no product.json.
C9_StatusDocument ==
    LET prod == {i \in 1..Len(written) : written[i] = "product.json"}
        fif == {i \in 1..Len(written) : written[i] = "out_dir_make_epochs/meg.fif"}
    IN  /\ Cardinality(prod) <= 1
        /\ \A i \in prod : epochs_call # <<>> /\ \E j \in fif : j < i
        /\ prod # {} =>
              /\ Len(product_json.brainlife) = 1
              /\ product_json.brainlife[1].type = "success"
        /\ prod = {} => product_json.brainlife = <<>>
        /\ pc = "error" => prod = {} /\ dict_json_product = <<>>
        /\ pc = "done" => prod # {}

\* C9 witness: the run is done and product.json is the last file written.
C9_Witness == pc = "done" /\ written[Len(written)] = "product.json"

\* C10: a missing events file ends the run with the ValueError of line 135
\* before any copy, any conversion of a parameter and any call of mne.Epochs;
\* otherwise events.tsv is the first file written, an auxiliary file is
\* copied exactly when it exists, and no run ends between the copy of the
\* events file and the last test of an auxiliary file.
C10_MissingEventsFile ==
    /\ (PastEvents /\ ~exists(EventsPath)) =>
          /\ pc = "error" /\ err = "ValueError"
          /\ written = <<>> /\ epochs_call = <<>>
          /\ \A k \in ParamNames : ValEq(config[k], RawConfig[k])
    /\ (PastEvents /\ exists(EventsPath)) =>
          /\ written # <<>> /\ written[1] = "out_dir_make_epochs/events.tsv"
          /\ \A a \in AuxFiles :
                /\ a[3] \in Written => exists(a[2])
                /\ a[1] \notin DOMAIN config => (a[3] \in Written <=> exists(a[2]))
          /\ pc = "error" => "headshape" \notin DOMAIN config
    /\ ~PastEvents => written = <<>>

\* C10 witness: the events file is missing and the run has ended at its test.
C10_Witness == PastEvents /\ ~exists(EventsPath) /\ pc = "error"

=============================================================================
